---- MODULE Spec2Model ----
(***************************************************************************)
(* Model of src/app.py: the Streamlit page that converts an uploaded       *)
(* lead-export CSV into the Rechat import schema.                          *)
(*                                                                         *)
(* Text is a sequence of atoms.  An atom is a single blank " ", a single   *)
(* comma ",", a single ".", a single "0", or a chunk: a piece of text with *)
(* no comma, no leading or trailing blank, no run of two blanks, that      *)
(* does not end in ".0".  Every regular expression and every strip() of    *)
(* the program acts on atom boundaries under this convention.              *)
(* pandas semantics are those of pandas 1.x/2.x (astype(str) turns a       *)
(* missing value into the text "nan").                                     *)
(***************************************************************************)
EXTENDS Integers, Sequences, FiniteSets, TLC

VARIABLES pc, uploaded_file, df_source, df_target, ui

vars == <<pc, uploaded_file, df_source, df_target, ui>>

\* Largest number of data rows of an uploaded file.
MaxRows == 2

\* st.dataframe(df_target.head()): head() keeps the first five rows.
HeadRows == 5

---------------------------------------------------------------------------
\* Module constants of app.py

RECHAT_COLUMNS ==
    << "First Name", "Last Name", "Marketing Name", "Phone", "Email", "Address",
       "Birthday", "Home Anniversary", "Tag", "Tag", "Notes",
       "Spouse/Partner - First Name", "Spouse/Partner - Last Name",
       "Spouse/Partner - Email", "Spouse/Partner - Phone", "Spouse/Partner Birthday" >>

CORE_SOURCE_COLUMNS ==
    << "first_name", "last_name", "email_1", "phone_1", "address", "city", "state", "zip_code" >>

OPTIONAL_SOURCE_COLUMNS ==
    << "home_owner_status", "insight", "gender", "age", "credit_range", "household_income",
       "marital_status", "household_net_worth", "occupation", "n_household_children",
       "email_2", "email_3", "phone_2", "phone_3", "phone_1_dnc", "phone_2_dnc", "phone_3_dnc",
       "Sellers", "Brokers And Agents", "Residential", "Pre-Movers", "Mortgages" >>

SOURCE_TAG_MARKER_COLS ==
    << "Sellers", "Brokers And Agents", "Residential", "Pre-Movers", "Mortgages" >>

\* note_source_cols_map, in insertion order: <<source column, prefix>>
note_source_cols_map ==
    << <<"insight", "">>,
       <<"occupation", "Occupation:">>,
       <<"gender", "Gender:">>,
       <<"age", "Age:">>,
       <<"marital_status", "Marital Status:">>,
       <<"n_household_children", "# Children:">>,
       <<"credit_range", "Credit:">>,
       <<"household_income", "Income:">>,
       <<"household_net_worth", "Net Worth:">>,
       <<"email_2", "Email 2:">>,
       <<"email_3", "Email 3:">>,
       <<"phone_2", "Phone 2:">>,
       <<"phone_3", "Phone 3:">> >>

---------------------------------------------------------------------------
\* Sequences and text

Range(s) == { s[i] : i \in 1..Len(s) }

Positions(s, x) == SelectSeq([i \in 1..Len(s) |-> i], LAMBDA i : s[i] = x)

RECURSIVE Flatten(_)
Flatten(ss) == IF ss = <<>> THEN <<>> ELSE Head(ss) \o Flatten(Tail(ss))

\* sep.join(parts)
RECURSIVE Join(_, _)
Join(parts, sep) ==
    IF parts = <<>> THEN <<>>
    ELSE IF Len(parts) = 1 THEN parts[1]
    ELSE parts[1] \o sep \o Join(Tail(parts), sep)

\* \s of the regular expressions, and the characters str.strip() removes
IsSpace(a) == a = " "

RECURSIVE LStrip(_)
LStrip(s) == IF s # <<>> /\ IsSpace(Head(s)) THEN LStrip(Tail(s)) ELSE s

RECURSIVE RStrip(_)
RStrip(s) == IF s # <<>> /\ IsSpace(s[Len(s)]) THEN RStrip(SubSeq(s, 1, Len(s) - 1)) ELSE s

\* str.strip()
Strip(s) == RStrip(LStrip(s))

\* str.lower() on the chunks that occur in the inputs; a chunk without an
\* upper-case letter is its own lower case.
LowerAtom(a) ==
    CASE a = "X" -> "x"
      [] a = "Y" -> "y"
      [] a = "N" -> "n"
      [] a = "HOME owner" -> "home owner"
      [] a = "Home Owner" -> "home owner"
      [] a = "Renter" -> "renter"
      [] OTHER -> a

Lower(s) == [i \in 1..Len(s) |-> LowerAtom(s[i])]

\* re.sub(r'\.0$', '', s)
SubDotZeroEnd(s) ==
    IF Len(s) >= 2 /\ s[Len(s) - 1] = "." /\ s[Len(s)] = "0"
    THEN SubSeq(s, 1, Len(s) - 2) ELSE s

\* re.sub(r'^,\s*', '', s)
SubLeadingComma(s) == IF s # <<>> /\ Head(s) = "," THEN LStrip(Tail(s)) ELSE s

\* re.sub(r',\s*$', '', s): a comma followed only by blanks up to the end
SubTrailingComma(s) ==
    LET t == RStrip(s)
    IN  IF t # <<>> /\ t[Len(t)] = "," THEN SubSeq(t, 1, Len(t) - 1) ELSE s

\* re.sub(r'\s*,\s*$', '', s): as above, and the blanks before that comma go too
SubTrailingCommaWs(s) ==
    LET t == RStrip(s)
    IN  IF t # <<>> /\ t[Len(t)] = "," THEN RStrip(SubSeq(t, 1, Len(t) - 1)) ELSE s

\* re.sub(r'\s{2,}', ' ', s): every run of two or more blanks becomes one blank
RECURSIVE CollapseSpaces(_)
CollapseSpaces(s) ==
    IF Len(s) < 2 THEN s
    ELSE IF IsSpace(s[1]) /\ IsSpace(s[2]) THEN <<" ">> \o CollapseSpaces(LStrip(s))
    ELSE <<s[1]>> \o CollapseSpaces(Tail(s))

\* re.sub(r'\s+,', ',', s): the blanks right before a comma are removed
RECURSIVE SubSpaceBeforeComma(_)
SubSpaceBeforeComma(s) ==
    IF s = <<>> THEN <<>>
    ELSE IF IsSpace(s[1])
         THEN LET rest == LStrip(s)
              IN  IF rest # <<>> /\ Head(rest) = ","
                  THEN SubSpaceBeforeComma(rest)
                  ELSE SubSeq(s, 1, Len(s) - Len(rest)) \o SubSpaceBeforeComma(rest)
         ELSE <<s[1]>> \o SubSpaceBeforeComma(Tail(s))

\* The chain of .str calls applied to address_col
NormalizeAddress(s) ==
    SubTrailingComma(
      SubSpaceBeforeComma(
        CollapseSpaces(
          Strip(
            SubTrailingCommaWs(
              SubLeadingComma(s))))))

---------------------------------------------------------------------------
\* Cell values of a DataFrame: a missing value, a str, an int or a float
\* (a float here always has an integral value; v holds its digits).

NaN == [t |-> "nan", v |-> <<>>]
StrV(s) == [t |-> "str", v |-> s]
IntV(s) == [t |-> "int", v |-> s]
FloatV(s) == [t |-> "float", v |-> s]
TypeError == [t |-> "TypeError", v |-> <<>>]
EmptyStr == StrV(<<>>)

\* pd.notna(x)
NotNa(x) == x.t # "nan"

\* str(x)
PyStr(x) ==
    CASE x.t = "nan" -> <<"nan">>
      [] x.t = "float" -> x.v \o <<".", "0">>
      [] OTHER -> x.v

\* Series.fillna('')
FillNa(series) == [i \in 1..Len(series) |-> IF NotNa(series[i]) THEN series[i] ELSE EmptyStr]

\* Series.astype(str)
AsTypeStr(series) == [i \in 1..Len(series) |-> StrV(PyStr(series[i]))]

\* Series.replace(r'\.0$', '', regex=True)
ReplaceDotZero(series) == [i \in 1..Len(series) |-> StrV(SubDotZeroEnd(series[i].v))]

\* a + b on two cells: only str + str is defined
Add(a, b) == IF a.t = "str" /\ b.t = "str" THEN StrV(a.v \o b.v) ELSE TypeError

\* Series + Series, Series + str
AddSeries(x, y) == [i \in 1..Len(x) |-> Add(x[i], y[i])]
AddScalar(x, s) == [i \in 1..Len(x) |-> Add(x[i], StrV(s))]

Raises(series) == \E i \in 1..Len(series) : series[i].t = "TypeError"

\* Series.str.strip()
StrStrip(series) == [i \in 1..Len(series) |-> StrV(Strip(series[i].v))]

---------------------------------------------------------------------------
\* DataFrames: column labels and, per column position, the cells by row.

NoFrame == [columns |-> <<>>, data |-> <<>>]

NRows(df) == IF df.data = <<>> THEN 0 ELSE Len(df.data[1])

\* col in df.columns
HasCol(df, col) == \E j \in 1..Len(df.columns) : df.columns[j] = col

\* df[col] for a label that occurs once
Col(df, col) == df.data[CHOOSE j \in 1..Len(df.columns) : df.columns[j] = col]

\* pd.DataFrame(columns=cols, index=index): every cell missing
NewFrame(cols, n) ==
    [columns |-> cols, data |-> [j \in 1..Len(cols) |-> [i \in 1..n |-> NaN]]]

\* df[col] = series: every column carrying the label is assigned
SetCol(df, col, series) ==
    [df EXCEPT !.data = [j \in 1..Len(df.columns) |->
                            IF df.columns[j] = col THEN series ELSE df.data[j]]]

\* df.iloc[:, j] = series  (j counted from 1 here)
ISetCol(df, j, series) == [df EXCEPT !.data[j] = series]

\* df[col] = '' and friends: a scalar is broadcast over the rows
Broadcast(x, n) == [i \in 1..n |-> x]

\* DataFrame.fillna('')
FillNaFrame(df) == [df EXCEPT !.data = [j \in 1..Len(df.columns) |-> FillNa(df.data[j])]]

\* df[keys]: Index.get_indexer_non_unique gives, for each key in turn, every
\* position that carries the label; take() then copies those positions.
SelectColumns(df, keys) ==
    LET indexer == Flatten([k \in 1..Len(keys) |-> Positions(df.columns, keys[k])])
    IN  [columns |-> [p \in 1..Len(indexer) |-> df.columns[indexer[p]]],
         data |-> [p \in 1..Len(indexer) |-> df.data[indexer[p]]]]

\* df.head()
HeadFrame(df) ==
    LET n == IF NRows(df) < HeadRows THEN NRows(df) ELSE HeadRows
    IN  [df EXCEPT !.data = [j \in 1..Len(df.columns) |-> SubSeq(df.data[j], 1, n)]]

\* df.to_csv(index=False): the header line and every cell as text
ToCsv(df) ==
    [header |-> df.columns,
     rows |-> [i \in 1..NRows(df) |->
                 [j \in 1..Len(df.columns) |->
                    IF NotNa(df.data[j][i]) THEN PyStr(df.data[j][i]) ELSE <<>>]]]

\* iterrows(): row i as the values of df.values; when no column is of object
\* dtype the values are one float64 array and every int becomes a float.
IsNumericCol(series) == \A i \in 1..Len(series) : series[i].t \in {"nan", "int", "float"}

AllNumeric(df) == \A j \in 1..Len(df.columns) : IsNumericCol(df.data[j])

RowValue(df, col, i) ==
    LET x == Col(df, col)[i]
    IN  IF x.t = "int" /\ AllNumeric(df) THEN FloatV(x.v) ELSE x

---------------------------------------------------------------------------
\* pd.read_csv: the header line gives the labels as written; a column whose
\* non-empty cells are all numbers is numeric (int64 when no cell is empty,
\* float64 otherwise, and float64 when every cell is empty); any other column
\* is of object dtype.  An empty cell is a missing value.

DigitWords ==
    { "5551234567", "5559876543", "5550001111", "62704", "89501", "45", "2", "42", "1600" }

IsIntText(s) == Len(s) = 1 /\ s[1] \in DigitWords

IsFloatText(s) == Len(s) = 3 /\ s[1] \in DigitWords /\ s[2] = "." /\ s[3] = "0"

InferDtype(cells) ==
    IF cells = <<>> THEN "object"
    ELSE IF \A i \in 1..Len(cells) : IsIntText(cells[i]) THEN "int64"
    ELSE IF \A i \in 1..Len(cells) :
                cells[i] = <<>> \/ IsIntText(cells[i]) \/ IsFloatText(cells[i]) THEN "float64"
    ELSE "object"

ParseCell(dtype, raw) ==
    IF raw = <<>> THEN NaN
    ELSE IF dtype = "int64" THEN IntV(raw)
    ELSE IF dtype = "float64" THEN FloatV(<<raw[1]>>)
    ELSE StrV(raw)

ParseColumn(cells) == [i \in 1..Len(cells) |-> ParseCell(InferDtype(cells), cells[i])]

ReadCsvFrame(file) ==
    [columns |-> file.header,
     data |-> [j \in 1..Len(file.header) |->
                 ParseColumn([i \in 1..Len(file.rows) |-> file.rows[i][j]])]]

---------------------------------------------------------------------------
\* The files that are uploaded: a header layout and up to MaxRows data rows.

AllSourceCols == CORE_SOURCE_COLUMNS \o OPTIONAL_SOURCE_COLUMNS

RowKeys == Range(AllSourceCols) \cup {"sha256"}

BlankRow == [k \in RowKeys |-> <<>>]

JaneRow ==
    ( "first_name" :> <<"Jane">> @@ "last_name" :> <<"Doe">> @@
      "email_1" :> <<"jane@example.com">> @@ "phone_1" :> <<"5551234567">> @@
      "address" :> <<"12 Elm St">> @@ "city" :> <<"Springfield">> @@
      "state" :> <<"IL">> @@ "zip_code" :> <<"62704">> @@
      "home_owner_status" :> <<" ", "HOME owner", " ">> @@
      "insight" :> <<"Looking to sell">> @@ "gender" :> <<"F">> @@ "age" :> <<"45">> @@
      "credit_range" :> <<"700-749">> @@ "household_income" :> <<"$90k">> @@
      "marital_status" :> <<"Married">> @@ "household_net_worth" :> <<"$250k">> @@
      "occupation" :> <<"Nurse">> @@ "n_household_children" :> <<"2">> @@
      "email_2" :> <<"jd@example.org">> @@ "email_3" :> <<"j3@example.net">> @@
      "phone_2" :> <<"5559876543">> @@ "phone_3" :> <<"5550001111">> @@
      "phone_1_dnc" :> <<"N">> @@ "phone_2_dnc" :> <<"Y">> @@ "phone_3_dnc" :> <<"N">> @@
      "Sellers" :> <<"x">> @@ "Pre-Movers" :> <<"X">> @@
      "Mortgages" :> <<" ", "x", " ">> @@ "sha256" :> <<"ab12">> ) @@ BlankRow

SpacesRow ==
    ( "first_name" :> <<"Al">> @@ "address" :> <<" ">> @@ "city" :> <<"Troy">> @@
      "state" :> <<"NY">> @@ "home_owner_status" :> <<"Renter">> @@
      "insight" :> <<" ">> @@ "phone_2" :> <<"5559876543">> @@
      "phone_2_dnc" :> <<" ">> @@ "phone_1_dnc" :> <<" ">> @@ "phone_3_dnc" :> <<"Y">> @@
      "Sellers" :> <<"y">> @@ "Brokers And Agents" :> <<"X">> @@
      "Residential" :> <<"x">> ) @@ BlankRow

CommaRow ==
    ( "first_name" :> <<"Bo">> @@ "last_name" :> <<"Ng">> @@
      "phone_1" :> <<"5551234567">> @@
      "address" :> <<",", ",", "Unit 5">> @@ "city" :> <<"Reno", ",">> @@
      "zip_code" :> <<"89501", ",", ",", ",">> @@
      "home_owner_status" :> <<"Home Owner">> ) @@ BlankRow

NumNameRow ==
    ( "first_name" :> <<"42">> @@ "last_name" :> <<"Doe">> @@
      "address" :> <<"12 Elm St">> @@ "city" :> <<"Springfield">> @@
      "state" :> <<"IL">> @@ "zip_code" :> <<"62704">> ) @@ BlankRow

NumAddressRow ==
    ( "first_name" :> <<"Cy">> @@ "last_name" :> <<"Lee">> @@
      "address" :> <<"1600">> @@ "city" :> <<"Reno">> @@
      "state" :> <<"NV">> @@ "zip_code" :> <<"89501">> ) @@ BlankRow

NumOnlyRow ==
    ( "phone_1" :> <<"5551234567">> @@ "zip_code" :> <<"62704">> @@ "age" :> <<"45">> @@
      "phone_2" :> <<"5559876543">> @@ "phone_3" :> <<"5550001111">> ) @@ BlankRow

FloatTextRow ==
    ( "first_name" :> <<"Di">> @@ "last_name" :> <<"Roe">> @@
      "phone_1" :> <<"5551234567", ".", "0">> @@
      "address" :> <<"9 Oak Ave">> @@ "city" :> <<"Troy">> @@ "state" :> <<"NY">> @@
      "zip_code" :> <<"62704", ".", "0">> @@
      "insight" :> <<"Looking to sell">> @@
      "phone_2" :> <<"5559876543", ".", "0">> @@ "phone_2_dnc" :> <<"Y">> @@
      "Sellers" :> <<"x">> @@ "Residential" :> <<"y">> @@ "Pre-Movers" :> <<"X">> ) @@ BlankRow

SourceRows ==
    { JaneRow, BlankRow, SpacesRow, CommaRow, NumNameRow, NumAddressRow, NumOnlyRow,
      FloatTextRow }

RowLists == UNION { [1..n -> SourceRows] : n \in 0..MaxRows }

Without(keys, dropped) == SelectSeq(keys, LAMBDA k : k \notin dropped)

Reverse(s) == [i \in 1..Len(s) |-> s[Len(s) + 1 - i]]

MarkerSet == Range(SOURCE_TAG_MARKER_COLS)

KeyLayouts ==
    { AllSourceCols, Reverse(AllSourceCols), AllSourceCols \o <<"sha256">>,
      CORE_SOURCE_COLUMNS, Without(AllSourceCols, MarkerSet),
      Without(AllSourceCols, {"phone_1", "zip_code"}) }
    \cup { Without(AllSourceCols, {c}) : c \in Range(AllSourceCols) }

\* Header cells as written in the file: the sample files pad some names.
PaddedKeys == {"first_name", "email_1", "address", "city", "state", "zip_code"}

PlainHeader(keys) == [j \in 1..Len(keys) |-> <<keys[j]>>]

PaddedHeader(keys) ==
    [j \in 1..Len(keys) |->
        IF keys[j] \in PaddedKeys THEN <<keys[j], " ">>
        ELSE IF keys[j] = "Sellers" THEN <<" ", "Sellers", " ">>
        ELSE <<keys[j]>>]

MakeFile(keys, header, rows) ==
    [header |-> header,
     rows |-> [i \in 1..Len(rows) |-> [j \in 1..Len(keys) |-> rows[i][keys[j]]]]]

PaddedLayouts ==
    { AllSourceCols, Without(AllSourceCols, {"zip_code"}), Without(AllSourceCols, {"Sellers"}) }

Layouts ==
    { [keys |-> k, header |-> PlainHeader(k)] : k \in KeyLayouts }
    \cup { [keys |-> k, header |-> PaddedHeader(k)] : k \in PaddedLayouts }

NoFile == [header |-> <<>>, rows |-> <<>>]

---------------------------------------------------------------------------
\* What the page shows: one entry per st.* call inside the upload branch.

Shown(kind, arg) == [kind |-> kind, arg |-> arg]

Kinds == [i \in 1..Len(ui) |-> ui[i].kind]

HasShown(kind) == \E i \in 1..Len(ui) : ui[i].kind = kind

Lbl(col) == <<col>>

Init ==
    /\ pc = "Idle"
    /\ uploaded_file = NoFile
    /\ df_source = NoFrame
    /\ df_target = NoFrame
    /\ ui = <<>>

\* st.file_uploader returns a file
Upload ==
    /\ pc = "Idle"
    /\ \E layout \in Layouts, rows \in RowLists :
          uploaded_file' = MakeFile(layout.keys, layout.header, rows)
    /\ pc' = "ReadCsv"
    /\ UNCHANGED <<df_source, df_target, ui>>

\* df_source = pd.read_csv(uploaded_file)
ReadCsv ==
    /\ pc = "ReadCsv"
    /\ df_source' = ReadCsvFrame(uploaded_file)
    /\ pc' = "CleanHeaders"
    /\ UNCHANGED <<uploaded_file, df_target, ui>>

\* df_source.columns = df_source.columns.str.strip(), and the warning that
\* lists the headers the strip changed
CleanHeaders ==
    /\ pc = "CleanHeaders"
    /\ LET original_columns == df_source.columns
           cleaned_columns == [j \in 1..Len(original_columns) |-> Strip(original_columns[j])]
           changed_headers ==
               SelectSeq([j \in 1..Len(original_columns) |->
                             <<original_columns[j], cleaned_columns[j]>>],
                         LAMBDA p : p[1] # p[2])
       IN  /\ df_source' = [df_source EXCEPT !.columns = cleaned_columns]
           /\ ui' = IF changed_headers # <<>>
                    THEN Append(ui, Shown("warning_headers", changed_headers))
                    ELSE ui
    /\ pc' = "Validate"
    /\ UNCHANGED <<uploaded_file, df_target>>

\* [col for col in cols if col not in df_source.columns]
MissingCols(cols, df) == SelectSeq(cols, LAMBDA c : ~HasCol(df, Lbl(c)))

\* A required-column list that forgot its last entry
missing_core_cols_ShortList(df) ==
    MissingCols(SubSeq(CORE_SOURCE_COLUMNS, 1, Len(CORE_SOURCE_COLUMNS) - 1), df)

missing_core_cols(df) == MissingCols(CORE_SOURCE_COLUMNS, df)

\* The optional check run over the core list
missing_optional_cols_CoreList(df) == MissingCols(CORE_SOURCE_COLUMNS, df)

missing_optional_cols(df) == MissingCols(OPTIONAL_SOURCE_COLUMNS, df)

\* The validation block: st.error and st.stop() when a core column is
\* missing (st.stop() ends the run; it is not an Exception the handler
\* catches), otherwise the optional-column warning.
Validate ==
    /\ pc = "Validate"
    /\ IF missing_core_cols(df_source) # <<>>
       THEN /\ ui' = Append(ui, Shown("error_missing_core", missing_core_cols(df_source)))
            /\ pc' = "Failed"
       ELSE /\ ui' = IF missing_optional_cols(df_source) # <<>>
                     THEN Append(ui, Shown("warning_optional",
                                           missing_optional_cols(df_source)))
                     ELSE ui
            /\ pc' = "DirectMappings"
    /\ UNCHANGED <<uploaded_file, df_source, df_target>>

\* except Exception as e: st.error(...), st.exception(e)
HandleException(shown) ==
    /\ ui' = shown \o <<Shown("error_exception", <<>>), Shown("exception", <<>>)>>
    /\ pc' = "Failed"

\* df_source[col] for a column the validation found
Src(col) == Col(df_source, Lbl(col))

\* 1. Direct mappings: the empty target frame, First Name, Last Name, Email,
\* Phone and Marketing Name.
PhoneColumn(series) == FillNa(ReplaceDotZero(AsTypeStr(series)))

MarketingName(first, last) == AddSeries(AddScalar(FillNa(first), <<" ">>), FillNa(last))

DirectMappings ==
    /\ pc = "DirectMappings"
    /\ LET t0 == NewFrame(RECHAT_COLUMNS, NRows(df_source))
           t1 == SetCol(t0, "First Name", FillNa(Src("first_name")))
           t2 == SetCol(t1, "Last Name", FillNa(Src("last_name")))
           t3 == SetCol(t2, "Email", FillNa(Src("email_1")))
           t4 == SetCol(t3, "Phone", PhoneColumn(Src("phone_1")))
           marketing == MarketingName(Src("first_name"), Src("last_name"))
       IN  IF Raises(marketing)
           THEN /\ df_target' = t4
                /\ HandleException(ui)
           ELSE /\ df_target' = SetCol(t4, "Marketing Name", StrStrip(marketing))
                /\ pc' = "CombineAddress"
                /\ ui' = ui
    /\ UNCHANGED <<uploaded_file, df_source>>

\* 2. Address: street, city, state and zip joined, then cleaned up.
AddressConcat(street, city, state, zip_str) ==
    AddSeries(
      AddScalar(
        AddSeries(
          AddScalar(
            AddSeries(AddScalar(FillNa(street), <<",", " ">>), FillNa(city)),
            <<" ">>),
          FillNa(state)),
        <<" ">>),
      zip_str)

CombineAddress ==
    /\ pc = "CombineAddress"
    /\ LET zip_str == PhoneColumn(Src("zip_code"))
           address_col == AddressConcat(Src("address"), Src("city"), Src("state"), zip_str)
       IN  IF Raises(address_col)
           THEN /\ df_target' = df_target
                /\ HandleException(ui)
           ELSE /\ df_target' =
                      SetCol(df_target, "Address",
                             [i \in 1..Len(address_col) |->
                                 StrV(NormalizeAddress(address_col[i].v))])
                /\ pc' = "PopulateTags"
                /\ ui' = ui
    /\ UNCHANGED <<uploaded_file, df_source>>

\* 3. Tags.
\* lambda x: 'Homeowner' if str(x).strip().lower() == 'home owner' else ''
HomeownerTag(x) ==
    IF Lower(Strip(PyStr(x))) = <<"home owner">> THEN StrV(<<"Homeowner">>) ELSE EmptyStr

\* The marker test without lower()
MarkerMatch_CaseSensitive(x) == Strip(PyStr(x)) = <<"x">>

\* str(row.get(col, '')).strip().lower() == 'x'
MarkerMatch(x) == Lower(Strip(PyStr(x))) = <<"x">>

available_source_tag_cols(df) ==
    SelectSeq(SOURCE_TAG_MARKER_COLS, LAMBDA c : HasCol(df, Lbl(c)))

RowTags(df, i) ==
    LET tags == SelectSeq(available_source_tag_cols(df),
                          LAMBDA c : MarkerMatch(RowValue(df, Lbl(c), i)))
    IN  StrV(Join([k \in 1..Len(tags) |-> <<tags[k]>>], <<",", " ">>))

\* A tag list that skips the rows without a tag
Tag2List_SkipEmpty(df) ==
    SelectSeq([i \in 1..NRows(df) |-> RowTags(df, i)], LAMBDA t : t # EmptyStr)

Tag2List(df) ==
    IF available_source_tag_cols(df) # <<>>
    THEN [i \in 1..NRows(df) |-> RowTags(df, i)]
    ELSE Broadcast(EmptyStr, NRows(df))

tag_indices == Positions(RECHAT_COLUMNS, "Tag")

PopulateTags ==
    /\ pc = "PopulateTags"
    /\ LET n == NRows(df_source)
           tag1 == IF HasCol(df_source, Lbl("home_owner_status"))
                   THEN FillNa([i \in 1..n |-> HomeownerTag(Src("home_owner_status")[i])])
                   ELSE Broadcast(EmptyStr, n)
           t1 == ISetCol(df_target, tag_indices[1], tag1)
       IN  df_target' = IF Len(tag_indices) > 1
                        THEN ISetCol(t1, tag_indices[2], Tag2List(df_source))
                        ELSE t1
    /\ pc' = "ConstructNotes"
    /\ UNCHANGED <<uploaded_file, df_source, ui>>

\* 4. Notes.
available_note_cols(df) == SelectSeq(note_source_cols_map, LAMBDA kv : HasCol(df, Lbl(kv[1])))

\* pd.notna(value) and str(value).strip()
NonBlank(x) == NotNa(x) /\ Strip(PyStr(x)) # <<>>

\* 'phone_N_dnc' in df_source.columns and pd.notna(row.get('phone_N_dnc'))
DncGiven(df, col, i) == HasCol(df, Lbl(col)) /\ NotNa(RowValue(df, Lbl(col), i))

DncSuffix(df, col, i) == <<" ", "(DNC:", " ">> \o PyStr(RowValue(df, Lbl(col), i)) \o <<")">>

NoteEntry(df, col, prefix, i) ==
    <<prefix, " ">> \o Strip(PyStr(RowValue(df, Lbl(col), i)))
    \o (IF col = "phone_2" /\ DncGiven(df, "phone_2_dnc", i)
        THEN DncSuffix(df, "phone_2_dnc", i) ELSE <<>>)
    \o (IF col = "phone_3" /\ DncGiven(df, "phone_3_dnc", i)
        THEN DncSuffix(df, "phone_3_dnc", i) ELSE <<>>)

NoteParts(df, i) ==
    LET avail == available_note_cols(df)
        has_insight == \E k \in 1..Len(avail) : avail[k][1] = "insight"
        first == IF has_insight /\ NonBlank(RowValue(df, Lbl("insight"), i))
                 THEN << Strip(PyStr(RowValue(df, Lbl("insight"), i))) >>
                 ELSE <<>>
        others == SelectSeq(avail, LAMBDA kv : /\ kv[1] # "insight"
                                               /\ NonBlank(RowValue(df, Lbl(kv[1]), i)))
        primary == IF DncGiven(df, "phone_1_dnc", i)
                   THEN << <<"Primary Phone DNC:", " ">>
                           \o PyStr(RowValue(df, Lbl("phone_1_dnc"), i)) >>
                   ELSE <<>>
    IN  first
        \o [k \in 1..Len(others) |-> NoteEntry(df, others[k][1], others[k][2], i)]
        \o primary

NotesList(df) ==
    [i \in 1..NRows(df) |-> StrV(Join(NoteParts(df, i), <<" ", "|", " ">>))]

ConstructNotes ==
    /\ pc = "ConstructNotes"
    /\ df_target' = SetCol(df_target, "Notes", NotesList(df_source))
    /\ pc' = "FinalCleanup"
    /\ UNCHANGED <<uploaded_file, df_source, ui>>

\* 5. and 6. The fields the source has nothing for, the failsafe loop,
\* fillna('') and the column selection df_target[RECHAT_COLUMNS].
EmptyTargetFields ==
    << "Birthday", "Home Anniversary", "Spouse/Partner - First Name",
       "Spouse/Partner - Last Name", "Spouse/Partner - Email", "Spouse/Partner - Phone",
       "Spouse/Partner Birthday" >>

RECURSIVE SetEmpty(_, _)
SetEmpty(df, cols) ==
    IF cols = <<>> THEN df
    ELSE SetEmpty(SetCol(df, Head(cols), Broadcast(EmptyStr, NRows(df))), Tail(cols))

RECURSIVE EnsureColumns(_, _)
EnsureColumns(df, cols) ==
    IF cols = <<>> THEN df
    ELSE IF HasCol(df, Head(cols)) THEN EnsureColumns(df, Tail(cols))
    ELSE EnsureColumns([columns |-> Append(df.columns, Head(cols)),
                        data |-> Append(df.data, Broadcast(EmptyStr, NRows(df)))],
                       Tail(cols))

OrderColumns(df) == SelectColumns(df, RECHAT_COLUMNS)

FinalCleanup ==
    /\ pc = "FinalCleanup"
    /\ df_target' =
          OrderColumns(FillNaFrame(EnsureColumns(SetEmpty(df_target, EmptyTargetFields),
                                                 RECHAT_COLUMNS)))
    /\ pc' = "Display"
    /\ UNCHANGED <<uploaded_file, df_source, ui>>

\* st.success, st.write and st.dataframe(df_target.head()).  st.dataframe
\* hands the frame to the Arrow serialiser, which can reject it; the
\* exception is raised after the banner and the caption were sent.
Display ==
    /\ pc = "Display"
    /\ LET shown == ui \o <<Shown("success", <<>>), Shown("write", <<>>)>>
       IN  \/ /\ ui' = Append(shown, Shown("dataframe", HeadFrame(df_target)))
              /\ pc' = "Download"
           \/ HandleException(shown)
    /\ UNCHANGED <<uploaded_file, df_source, df_target>>

\* csv_data = df_target.to_csv(index=False) and st.download_button
Download ==
    /\ pc = "Download"
    /\ ui' = Append(ui, Shown("download_button", ToCsv(df_target)))
    /\ pc' = "Transformed"
    /\ UNCHANGED <<uploaded_file, df_source, df_target>>

Next ==
    \/ Upload
    \/ ReadCsv
    \/ CleanHeaders
    \/ Validate
    \/ DirectMappings
    \/ CombineAddress
    \/ PopulateTags
    \/ ConstructNotes
    \/ FinalCleanup
    \/ Display
    \/ Download

Spec == Init /\ [][Next]_vars

---------------------------------------------------------------------------
\* What the uploaded file says, read from the file itself.

\* The header cell h, trimmed, is the name key
LabelIs(h, key) == IF Len(h) = 1 THEN h[1] = key ELSE Strip(h) = <<key>>

FilePresent(key) ==
    \E j \in 1..Len(uploaded_file.header) : LabelIs(uploaded_file.header[j], key)

Raw(i, key) ==
    uploaded_file.rows[i][CHOOSE j \in 1..Len(uploaded_file.header) :
                              LabelIs(uploaded_file.header[j], key)]

FileRows == Len(uploaded_file.rows)

MissingCoreSet == { c \in Range(CORE_SOURCE_COLUMNS) : ~FilePresent(c) }

MissingOptionalSet == { c \in Range(OPTIONAL_SOURCE_COLUMNS) : ~FilePresent(c) }

IsNumberText(raw) == IsIntText(raw) \/ IsFloatText(raw)

\* A column of the file that pandas reads as numbers
ReadAsNumbers(key) ==
    /\ FileRows > 0
    /\ \E i \in 1..FileRows : Raw(i, key) # <<>>
    /\ \A i \in 1..FileRows : Raw(i, key) = <<>> \/ IsNumberText(Raw(i, key))

\* The text columns the derivation concatenates hold text
TextCoreIsText ==
    \A c \in {"first_name", "last_name", "address", "city", "state"} : ~ReadAsNumbers(c)

BeforeValidation == pc \in {"Idle", "ReadCsv", "CleanHeaders", "Validate"}

\* The output table: df_target as the final cleanup leaves it and as it is
\* offered for download
Converted == pc \in {"Display", "Transformed"}

\* The tags as PopulateTags leaves them, and in the output table
Tagged == pc \in {"ConstructNotes", "Display", "Transformed"}

Target(col) == Col(df_target, col)

FirstTag == df_target.data[Positions(df_target.columns, "Tag")[1]]

SecondTag == df_target.data[Positions(df_target.columns, "Tag")[2]]

Contains(s, a) == \E k \in 1..Len(s) : s[k] = a

HasDotZero(s) == \E k \in 1..Len(s) - 1 : s[k] = "." /\ s[k + 1] = "0"

\* The note segment that starts with the chunk `prefix`: up to the next "|"
Segment(notes, prefix) ==
    LET k == CHOOSE p \in 1..Len(notes) : notes[p] = prefix
        ends == { p \in k..Len(notes) : notes[p] = "|" }
        last == IF ends = {} THEN Len(notes)
                ELSE (CHOOSE p \in ends : \A q \in ends : p <= q) - 1
    IN  SubSeq(notes, k, last)

SegmentHas(notes, prefix, a) == Contains(notes, prefix) /\ Contains(Segment(notes, prefix), a)

IsMarked(raw) == Strip(raw) \in { <<"x">>, <<"X">> }

---------------------------------------------------------------------------
\* C1: for every table that passes validation the header of the output
\* table, and of the CSV offered for download, is RECHAT_COLUMNS: the same
\* 16 names in the same order, "Tag" exactly twice.
C1_HeaderIsSchema ==
    /\ Converted => df_target.columns = RECHAT_COLUMNS
    /\ pc = "Transformed" => ui[Len(ui)].arg.header = RECHAT_COLUMNS

\* C2: when a core column is missing after the headers are trimmed, the run
\* ends at validation: the last thing shown is the error naming exactly the
\* missing core columns, no target table exists, and neither the success
\* banner, the preview nor the download is shown.
C2_RequiredGate ==
    (~BeforeValidation /\ MissingCoreSet # {}) =>
        /\ pc = "Failed"
        /\ df_target = NoFrame
        /\ ui[Len(ui)].kind = "error_missing_core"
        /\ Range(ui[Len(ui)].arg) = MissingCoreSet
        /\ Len(ui[Len(ui)].arg) = Cardinality(MissingCoreSet)
        /\ \A k \in 1..Len(ui) :
              ui[k].kind \in {"warning_headers", "error_missing_core"}

C2_Witness ==
    /\ pc = "Failed"
    /\ MissingCoreSet = {"phone_1", "zip_code"}
    /\ FileRows = MaxRows
    /\ HasShown("error_missing_core")

\* C3: the output table has one row per source row, in every column, and
\* row i of the output is made from row i of the file: names, e-mail and
\* phone, the street at the head of Address, both tags and the notes.
C3_RowAlignment ==
    Converted =>
        /\ \A j \in 1..Len(df_target.data) : Len(df_target.data[j]) = FileRows
        /\ \A i \in 1..FileRows :
              /\ Target("First Name")[i] = StrV(Raw(i, "first_name"))
              /\ Target("Last Name")[i] = StrV(Raw(i, "last_name"))
              /\ Target("Email")[i] = StrV(Raw(i, "email_1"))
              /\ Raw(i, "phone_1") # <<>> =>
                     Target("Phone")[i] = StrV(<<Raw(i, "phone_1")[1]>>)
              /\ Len(Raw(i, "address")) = 1 /\ ~IsSpace(Raw(i, "address")[1]) =>
                     Head(Target("Address")[i].v) = Raw(i, "address")[1]
              /\ Raw(i, "city") # <<>> => Contains(Target("Address")[i].v, Raw(i, "city")[1])
              /\ (FirstTag[i] = StrV(<<"Homeowner">>)) <=>
                     (/\ FilePresent("home_owner_status")
                      /\ Strip(Raw(i, "home_owner_status")) \in
                             { <<"HOME owner">>, <<"Home Owner">> })
              /\ \A m \in MarkerSet :
                     Contains(SecondTag[i].v, m) <=> (FilePresent(m) /\ IsMarked(Raw(i, m)))
              /\ Contains(Target("Notes")[i].v, "Phone 2:") <=>
                     (FilePresent("phone_2") /\ Raw(i, "phone_2") # <<>>)
              /\ Contains(Target("Notes")[i].v, "Looking to sell") <=>
                     (FilePresent("insight") /\ Raw(i, "insight") = <<"Looking to sell">>)

C3_Witness ==
    /\ pc = "Transformed"
    /\ FileRows = 2
    /\ NRows(df_target) = 2
    /\ Target("First Name")[1] = StrV(<<"Al">>)
    /\ Target("First Name")[2] = StrV(<<"Jane">>)
    /\ Contains(Target("Notes")[2].v, "Looking to sell")
    /\ Contains(SecondTag[1].v, "Residential")

\* What a missing optional column would have contributed: the chunk that
\* marks its part of the output.
NotePrefixOf(c) ==
    LET k == CHOOSE p \in 1..Len(note_source_cols_map) : note_source_cols_map[p][1] = c
    IN  note_source_cols_map[k][2]

NoContribution(c, i) ==
    LET notes == Target("Notes")[i].v
    IN  CASE c = "home_owner_status" -> FirstTag[i] = EmptyStr
          [] c \in MarkerSet -> ~Contains(SecondTag[i].v, c)
          [] c = "insight" -> ~Contains(notes, "Looking to sell")
          [] c = "phone_1_dnc" -> ~Contains(notes, "Primary Phone DNC:")
          [] c = "phone_2_dnc" -> ~SegmentHas(notes, "Phone 2:", "(DNC:")
          [] c = "phone_3_dnc" -> ~SegmentHas(notes, "Phone 3:", "(DNC:")
          [] OTHER -> ~Contains(notes, NotePrefixOf(c))

C5_MissingIsEmpty ==
    Converted =>
        \A i \in 1..FileRows :
            /\ Raw(i, "phone_1") = <<>> => Target("Phone")[i] = EmptyStr
            /\ Raw(i, "zip_code") = <<>> => ~Contains(Target("Address")[i].v, "nan")

\* C6: when a phone or zip column was read as numbers, no place that renders
\* it shows a trailing ".0": not Phone, not Address, not the "Phone 2:" and
\* "Phone 3:" segments of Notes.
C6_NoDotZero ==
    Converted =>
        \A i \in 1..FileRows :
            /\ ReadAsNumbers("phone_1") => ~HasDotZero(Target("Phone")[i].v)
            /\ ReadAsNumbers("zip_code") => ~HasDotZero(Target("Address")[i].v)
            /\ \A n \in {2, 3} :
                  LET col == IF n = 2 THEN "phone_2" ELSE "phone_3"
                      prefix == IF n = 2 THEN "Phone 2:" ELSE "Phone 3:"
                      notes == Target("Notes")[i].v
                  IN  (FilePresent(col) /\ ReadAsNumbers(col) /\ Contains(notes, prefix)) =>
                          ~HasDotZero(Segment(notes, prefix))

\* C7: a DNC annotation is in the notes of a row exactly when its DNC column
\* is present and the row's cell is non-blank after trimming: "(DNC: v)" on
\* the phone_2 / phone_3 segment when that segment is emitted, and
\* "Primary Phone DNC: v" for phone_1_dnc; a row with no segment has empty
\* notes.
DncFilled(i, col) == FilePresent(col) /\ Strip(Raw(i, col)) # <<>>

C7_DncOnlyWhenNonBlank ==
    Converted =>
        \A i \in 1..FileRows :
            LET notes == Target("Notes")[i].v
            IN  /\ Contains(notes, "Primary Phone DNC:") <=> DncFilled(i, "phone_1_dnc")
                /\ SegmentHas(notes, "Phone 2:", "(DNC:") <=>
                       (Contains(notes, "Phone 2:") /\ DncFilled(i, "phone_2_dnc"))
                /\ SegmentHas(notes, "Phone 3:", "(DNC:") <=>
                       (Contains(notes, "Phone 3:") /\ DncFilled(i, "phone_3_dnc"))
                /\ (\A c \in Range(OPTIONAL_SOURCE_COLUMNS) :
                        FilePresent(c) => Strip(Raw(i, c)) = <<>>) => notes = <<>>

\* C8: the address clean-up is idempotent on its own outputs: cleaning the
\* Address of any row again leaves it as it is.
C8_NormalizeIdempotent ==
    Converted =>
        \A i \in 1..FileRows :
            NormalizeAddress(Target("Address")[i].v) = Target("Address")[i].v

\* C9: a run ends either Transformed or Failed and the two do not overlap: a
\* failed run shows an error and neither the success banner, the preview nor
\* the download; the download is shown only by a transformed run, which
\* shows no error.
IsError(kind) == kind \in {"error_missing_core", "error_exception"}

C9_FailedExposesNothing ==
    /\ pc = "Failed" =>
          /\ \E k \in 1..Len(ui) : IsError(ui[k].kind)
          /\ ~HasShown("success") /\ ~HasShown("dataframe") /\ ~HasShown("download_button")
    /\ pc = "Transformed" =>
          /\ HasShown("download_button")
          /\ \A k \in 1..Len(ui) : ~IsError(ui[k].kind)
    /\ HasShown("download_button") => pc = "Transformed"

\* C10: the second Tag of a row is the ", "-joined names of the marker
\* columns that are in the file and whose cell, trimmed and lower-cased, is
\* "x", in the order of SOURCE_TAG_MARKER_COLS whatever the file's column
\* order; with no marker column in the file it is empty for every row.
ExpectedSecondTag(i) ==
    LET marked == SelectSeq(SOURCE_TAG_MARKER_COLS,
                            LAMBDA m : FilePresent(m) /\ IsMarked(Raw(i, m)))
    IN  Join([k \in 1..Len(marked) |-> <<marked[k]>>], <<",", " ">>)

C10_SecondTag ==
    Tagged =>
        /\ Len(SecondTag) = FileRows
        /\ \A i \in 1..FileRows : SecondTag[i] = StrV(ExpectedSecondTag(i))

C10_Witness ==
    /\ pc = "Transformed"
    /\ uploaded_file.header[1] = <<"Mortgages">>
    /\ \E i \in 1..FileRows :
          /\ Raw(i, "Sellers") = <<"x">>
          /\ Raw(i, "Residential") = <<"y">>
          /\ Raw(i, "Pre-Movers") = <<"X">>
          /\ SecondTag[i] = StrV(<<"Sellers", ",", " ", "Pre-Movers">>)

====
